---- MODULE Spec2Model ----
(***************************************************************************)
(* Model of the multi-model orchestration of toxiguard-api:                *)
(*   app/services/multi_model_analyzer.py  (MultiModelAnalyzer)            *)
(*   app/routers/analyze_v2.py             (analyze_text_v2)               *)
(*                                                                         *)
(* Scores and confidences are kept in tenths (8 stands for 0.8); weights   *)
(* are kept in twentieths (4 stands for 0.2).  A quotient the code         *)
(* computes in floating point is kept as the exact fraction num/den.       *)
(***************************************************************************)
EXTENDS Integers, Sequences, FiniteSets, TLC

\* ------------------------------------------------------------------ names

\* The analyzers __init__ may register, in the order it registers them
\* (a dict keeps insertion order).
RegOrder == <<"keyword", "toxic_bert", "mistral", "claude">>

Backends == {RegOrder[i] : i \in 1..Len(RegOrder)}

\* The strategy names analyze_with_strategy has a branch for.
Strategies == {"fast", "cascade", "balanced", "accurate"}

\* An identifier none of the branches matches (AnalyzeRequestV2 lets null
\* through: the field is Optional).
UnknownStrategy == "null"

\* priority_models of the accurate strategy, in list order.
PriorityModels == <<"keyword", "toxic_bert", "claude">>

\* ModelResult.error: None, "Model ... not available", "Timeout", str(e).
NoError == "None"

ErrUnavailable == "not available"

ErrTimeout == "Timeout"

ErrBackend == "exception"

\* The analyzers whose analyze lets an exception out: KeywordAnalyzer.analyze
\* has no try; the analyze of the other three ends in "except Exception".
RaisingBackends == {"keyword"}

\* ---------------------------------------------------------------- bounds

\* How many requests one behaviour follows, one after the other.
MaxRequests == 1

\* Scores the backends other than keyword answer with, in tenths.
OtherScores == {2, 3, 8}

\* ------------------------------------------------------- program constants

\* The largest score of a backend: final_score = min(1.0, final_score), in
\* tenths.
MaxScore == 10

\* final_score >= 0.3 and score >= 0.3, in tenths.
ToxicThreshold == 3

\* 0.2 <= keyword_result.toxicity_score <= 0.7, in tenths.
BertGateLow == 2

BertGateHigh == 7

\* 0.3 <= keyword_result.toxicity_score <= 0.6, in tenths.
ClaudeGateLow == 3

ClaudeGateHigh == 6

\* ------------------------------------------------------------------ state

VARIABLES
    models,         \* self.models: the registered backends
    model_weights,  \* self.model_weights, in twentieths
    pc,             \* where analyze_with_strategy stands
    strategy,       \* the strategy argument of the request
    tasks,          \* the (model_name, task) pairs not awaited yet
    callSt,         \* per backend: the state of its analyze_with_model call
    callRes,        \* per backend: the ModelResult its call returned
    thread,         \* per backend: the executor thread running model.analyze
    results,        \* the local list results
    final,          \* the dict analyze_with_strategy returned
    response,       \* what analyze_text_v2 answered the caller
    calls,          \* per backend: how often analyze_with_model was called
    served,         \* how many requests were answered
    innerError,     \* per backend: model.analyze caught an error of its own
    outOfOrder,     \* a call completed while an earlier task still ran
    analyzer,       \* the analyzer class whose cache is followed
    cache,          \* its cache: the entries in dict order
    clock,          \* datetime.now(), in ticks
    lastCall,       \* the last analyze_text call and what it returned
    inserted,       \* the keys stored so far, in the order they were stored
    elapsed,        \* the latest time the request can have reached, in seconds
    finishBy,       \* per backend: the time its call has returned by
    workers,        \* per executor thread: where its analyze_text call stands
    router_analyzer,  \* the global "analyzer" of routers/analyze_v2.py
    analyzer_lock,  \* who holds analyzer_lock, 0 when it is free
    constructions,  \* how often MultiModelAnalyzer() was called
    req,            \* per request of the v2 endpoints: its locals
    api_keys,       \* the rows of table api_keys
    usage,          \* the rows of table api_usage: request_count per key and day
    today,          \* date.today()
    lastAuth        \* the last verify_api_key call and how it ended

\* The state of the orchestrator and of a request.
orchVars == <<models, model_weights, pc, strategy, tasks, callSt, callRes, thread,
              results, final, response, calls, served, innerError, outOfOrder,
              elapsed, finishBy>>

\* The state of an analyzer's cache.
cacheVars == <<analyzer, cache, clock, lastCall, inserted>>

\* The threads that run analyze_text of one analyzer at the same time.
workerVars == <<workers>>

\* The module state of routers/analyze_v2.py and the requests in flight.
routerVars == <<router_analyzer, analyzer_lock, constructions, req>>

\* The tables verify_api_key reads and writes.
authVars == <<api_keys, usage, today, lastAuth>>

vars == <<orchVars, cacheVars, workerVars, routerVars, authVars>>

\* What a step of the orchestrator leaves alone, and a step of a cache.
nonOrchVars == <<cacheVars, workerVars, routerVars, authVars>>

nonCacheVars == <<orchVars, workerVars, routerVars, authVars>>

nonRouterVars == <<orchVars, cacheVars, workerVars, authVars>>

nonAuthVars == <<orchVars, cacheVars, workerVars, routerVars>>

\* What a step of an executor thread leaves alone, the cache apart.
nonWorkerVars == <<orchVars, routerVars, authVars, clock, lastCall, inserted>>

Null == [none |-> TRUE]

\* ------------------------------------------------------------- sequences

RECURSIVE SumSeq(_)
SumSeq(s) == IF s = <<>> THEN 0 ELSE Head(s) + SumSeq(Tail(s))

RECURSIVE FilterSeq(_, _)
FilterSeq(s, set) ==
    IF s = <<>> THEN <<>>
    ELSE IF Head(s) \in set THEN <<Head(s)>> \o FilterSeq(Tail(s), set)
    ELSE FilterSeq(Tail(s), set)

Range(s) == {s[i] : i \in 1..Len(s)}

\* ------------------------------------------------- what a backend answers

\* The categories and the confidence that come with a score: the answer of
\* model.analyze(text) is the tuple (score, categories, confidence).
CategoriesFor(b, s) ==
    IF s = 0 THEN <<>>
    ELSE IF b = "mistral" THEN <<[name |-> "insult", score |-> s]>>
    ELSE IF b = "claude"
        THEN <<[name |-> "insult", score |-> s], [name |-> "severe", score |-> s]>>
    ELSE <<[name |-> "severe", score |-> s]>>

ConfidenceFor(b, s) ==
    IF b = "keyword" THEN (IF s = 0 THEN 9 ELSE IF s >= 8 THEN 10 ELSE 7)
    ELSE IF b = "toxic_bert" THEN (IF s >= 7 THEN 9 ELSE IF s >= 3 THEN 7 ELSE 5)
    ELSE IF b = "mistral" THEN 6
    ELSE 8

ScoresOf(b) == IF b = "keyword" THEN 0..MaxScore ELSE OtherScores

Payloads(b) ==
    {[score |-> s, categories |-> CategoriesFor(b, s),
      confidence |-> ConfidenceFor(b, s)] : s \in ScoresOf(b)}

\* What the analyze of toxic_bert, mistral and claude returns from its
\* "except Exception": return 0.0, [], 0.0
ErrorPayload == [score |-> 0, categories |-> <<>>, confidence |-> 0]

\* ------------------------------------------------------------ ModelResult

IsToxic(score) == score >= ToxicThreshold

\* The ModelResult of a call that returned (score, categories, confidence).
OkResult(b, p) ==
    [model_name |-> b, toxicity_score |-> p.score, is_toxic |-> IsToxic(p.score),
     categories |-> p.categories, confidence |-> p.confidence, error |-> NoError]

\* The ModelResult of a call that did not: score 0.0, no categories,
\* confidence 0.0 and the error.
FailResult(b, err) ==
    [model_name |-> b, toxicity_score |-> 0, is_toxic |-> FALSE,
     categories |-> <<>>, confidence |-> 0, error |-> err]

UnavailableResult(b) == FailResult(b, ErrUnavailable)

TimeoutResult(b) == FailResult(b, ErrTimeout)

ExceptionResult(b) == FailResult(b, ErrBackend)

\* ---------------------------------------------- _aggregate_results

\* A quotient n/d the code computes in floating point.
Frac(n, d) == [num |-> n, den |-> d]

Zero == Frac(0, 1)

\* f >= k, for a fraction f with a positive denominator.
FracGE(f, k) == f.num >= k * f.den

FracLE(f, k) == f.num <= k * f.den

\* Mutant: the failed results are kept.
ValidResults_KeepsFailed(rs) == rs

\* valid_results = [r for r in results if r.error is None]
ValidResults(rs) == SelectSeq(rs, LAMBDA r : r.error = NoError)

\* weight = self.model_weights.get(result.model_name, 0.1): model_weights
\* holds a weight for every name a result can carry.
WeightOf(weights, name) == weights[name]

\* weighted_score += result.toxicity_score * weight
RECURSIVE WeightedScore(_, _)
WeightedScore(valid, weights) ==
    IF valid = <<>> THEN 0
    ELSE Head(valid).toxicity_score * WeightOf(weights, Head(valid).model_name)
         + WeightedScore(Tail(valid), weights)

\* total_weight += weight
RECURSIVE TotalWeight(_, _)
TotalWeight(valid, weights) ==
    IF valid = <<>> THEN 0
    ELSE WeightOf(weights, Head(valid).model_name) + TotalWeight(Tail(valid), weights)

\* Mutant: the division is not guarded.
FinalScore_NoGuard(valid, weights) ==
    Frac(WeightedScore(valid, weights), TotalWeight(valid, weights))

\* final_score = weighted_score / total_weight if total_weight > 0 else 0.0
FinalScore(valid, weights) ==
    IF TotalWeight(valid, weights) > 0
    THEN Frac(WeightedScore(valid, weights), TotalWeight(valid, weights))
    ELSE Zero

\* Mutant: the threshold is exclusive.
FinalIsToxic_Strict(score) == score.num > ToxicThreshold * score.den

\* "is_toxic": final_score >= 0.3
FinalIsToxic(score) == FracGE(score, ToxicThreshold)

\* all_categories.extend(result.categories)
RECURSIVE AllCategories(_)
AllCategories(valid) ==
    IF valid = <<>> THEN <<>>
    ELSE Head(valid).categories \o AllCategories(Tail(valid))

\* Mutant: of the categories of one name the last is kept.
RECURSIVE UniqueCategories_KeepsLast(_, _)
UniqueCategories_KeepsLast(cats, seen_names) ==
    IF cats = <<>> THEN <<>>
    ELSE IF \E j \in 2..Len(cats) : cats[j].name = Head(cats).name
        THEN UniqueCategories_KeepsLast(Tail(cats), seen_names)
    ELSE <<Head(cats)>> \o UniqueCategories_KeepsLast(Tail(cats), seen_names)

\* the loop over all_categories with seen_names: the first of each name
RECURSIVE UniqueCategories(_, _)
UniqueCategories(cats, seen_names) ==
    IF cats = <<>> THEN <<>>
    ELSE IF Head(cats).name \in seen_names
        THEN UniqueCategories(Tail(cats), seen_names)
    ELSE <<Head(cats)>>
         \o UniqueCategories(Tail(cats), seen_names \cup {Head(cats).name})

\* confidence_scores.append(result.confidence)
RECURSIVE ConfidenceScores(_)
ConfidenceScores(valid) ==
    IF valid = <<>> THEN <<>>
    ELSE <<Head(valid).confidence>> \o ConfidenceScores(Tail(valid))

\* np.mean(confidence_scores) if confidence_scores else 0.0
AvgConfidence(valid) ==
    IF valid = <<>> THEN Zero
    ELSE Frac(SumSeq(ConfidenceScores(valid)), Len(valid))

\* model_details[result.model_name] = {...} for every result
ModelDetails(rs) ==
    [n \in {rs[i].model_name : i \in 1..Len(rs)} |->
        LET r == rs[CHOOSE i \in 1..Len(rs) :
                        /\ rs[i].model_name = n
                        /\ \A j \in (i+1)..Len(rs) : rs[j].model_name # n]
        IN [score |-> r.toxicity_score, is_toxic |-> r.is_toxic,
            confidence |-> r.confidence, error |-> r.error]]

\* Mutant: the early returns report a toxic text with full confidence.
ErrorDict_Toxic(msg) ==
    [toxicity_score |-> Frac(MaxScore, 1), is_toxic |-> TRUE, categories |-> <<>>,
     confidence |-> Frac(MaxScore, 1),
     details |-> [error |-> msg]]

\* The dict of the two early returns: score 0.0, not toxic, no categories,
\* confidence 0.0 and details {"error": msg}.
ErrorDict(msg) ==
    [toxicity_score |-> Zero, is_toxic |-> FALSE, categories |-> <<>>,
     confidence |-> Zero,
     details |-> [error |-> msg]]

\* Mutant: one failed result fails the aggregation.
AggregateResults_FailsOnAnyError(rs, weights) ==
    IF rs = <<>> THEN ErrorDict("No results")
    ELSE IF \E i \in 1..Len(rs) : rs[i].error # NoError
        THEN ErrorDict("All models failed")
    ELSE [toxicity_score |-> FinalScore(rs, weights),
          is_toxic |-> FinalIsToxic(FinalScore(rs, weights)),
          categories |-> UniqueCategories(AllCategories(rs), {}),
          confidence |-> AvgConfidence(rs),
          details |-> [model_results |-> ModelDetails(rs),
                       total_models |-> Len(rs), valid_models |-> Len(rs)]]

\* Mutant: the confidence is averaged over every result, failed ones too.
AggregateResults_ConfidenceOverAll(rs, weights) ==
    IF rs = <<>> THEN ErrorDict("No results")
    ELSE IF ValidResults(rs) = <<>> THEN ErrorDict("All models failed")
    ELSE LET valid == ValidResults(rs)
             final_score == FinalScore(valid, weights)
         IN [toxicity_score |-> final_score,
             is_toxic |-> FinalIsToxic(final_score),
             categories |-> UniqueCategories(AllCategories(valid), {}),
             confidence |-> AvgConfidence(rs),
             details |-> [model_results |-> ModelDetails(rs),
                          total_models |-> Len(rs), valid_models |-> Len(valid)]]

\* _aggregate_results(results, strategy)
AggregateResults(rs, weights) ==
    IF rs = <<>> THEN ErrorDict("No results")
    ELSE IF ValidResults(rs) = <<>> THEN ErrorDict("All models failed")
    ELSE LET valid == ValidResults(rs)
             final_score == FinalScore(valid, weights)
         IN [toxicity_score |-> final_score,
             is_toxic |-> FinalIsToxic(final_score),
             categories |-> UniqueCategories(AllCategories(valid), {}),
             confidence |-> AvgConfidence(valid),
             details |-> [model_results |-> ModelDetails(rs),
                          total_models |-> Len(rs), valid_models |-> Len(valid)]]

\* models_used = [r.model_name for r in results if r.error is None]
RECURSIVE ModelsUsed(_)
ModelsUsed(rs) ==
    IF rs = <<>> THEN <<>>
    ELSE IF Head(rs).error = NoError
        THEN <<Head(rs).model_name>> \o ModelsUsed(Tail(rs))
    ELSE ModelsUsed(Tail(rs))

\* What analyze_with_strategy returns: the aggregate, then the keys
\* "strategy" and "models_used" set on it.
FinalResult(rs, weights, s) ==
    LET agg == AggregateResults(rs, weights)
    IN [toxicity_score |-> agg.toxicity_score, is_toxic |-> agg.is_toxic,
        categories |-> agg.categories, confidence |-> agg.confidence,
        details |-> agg.details, strategy |-> s, models_used |-> ModelsUsed(rs)]

\* ------------------------------------------------------- analyze_text_v2

\* AnalyzeResponseV2 validates: 0 <= toxicity_score <= 1, 0 <= confidence
\* <= 1, strategy a string.
ResponseValid(res) ==
    /\ FracGE(res.toxicity_score, 0) /\ FracLE(res.toxicity_score, 10)
    /\ FracGE(res.confidence, 0) /\ FracLE(res.confidence, 10)
    /\ res.strategy # UnknownStrategy

\* The response built from the result; a validation error is caught and
\* answered as HTTPException(500).
RouterResponse(res) ==
    IF ResponseValid(res)
    THEN [status |-> 200, toxicity_score |-> res.toxicity_score,
          is_toxic |-> res.is_toxic, confidence |-> res.confidence,
          strategy |-> res.strategy, models_used |-> res.models_used]
    ELSE [status |-> 500, toxicity_score |-> Zero, is_toxic |-> FALSE,
          confidence |-> Zero, strategy |-> res.strategy, models_used |-> <<>>]


\* ------------------------------------------------------------ __init__

\* The fallback weights of __init__ (0.2, 0.3, 0.15, 0.2), in twentieths.
DefaultWeights ==
    [b \in Backends |->
        CASE b = "keyword" -> 4 [] b = "toxic_bert" -> 6
          [] b = "mistral" -> 3 [] b = "claude" -> 4]

\* The weights MODEL_CONFIGS may set instead: the fallbacks, keyword 0.6 with
\* toxic_bert 0.4, every weight 0.0, and two of the four 0.0.
WeightConfigs ==
    { DefaultWeights,
      [DefaultWeights EXCEPT !["keyword"] = 12, !["toxic_bert"] = 8],
      [b \in Backends |-> 0],
      [DefaultWeights EXCEPT !["toxic_bert"] = 0, !["claude"] = 0] }

NoCalls == [b \in Backends |-> 0]

\* No analyzer's cache is followed: self._cache = {} and no call made.
CacheUnused ==
    /\ analyzer = "none"
    /\ cache = <<>>
    /\ clock = 0
    /\ lastCall = Null
    /\ inserted = <<>>

\* No executor thread is followed.
WorkersUnused == workers = <<>>

\* No request of the v2 endpoints is followed: the module as imported.
RouterUnused ==
    /\ router_analyzer = Null
    /\ analyzer_lock = 0
    /\ constructions = 0
    /\ req = <<>>

\* No verify_api_key call is followed.
AuthUnused ==
    /\ api_keys = <<>>
    /\ usage = <<>>
    /\ today = 0
    /\ lastAuth = Null

Init ==
    /\ models \in SUBSET Backends
    /\ model_weights \in WeightConfigs
    /\ pc = "idle"
    /\ strategy = "none"
    /\ tasks = <<>>
    /\ callSt = [b \in Backends |-> "none"]
    /\ callRes = [b \in Backends |-> Null]
    /\ thread = [b \in Backends |-> "none"]
    /\ results = <<>>
    /\ final = Null
    /\ response = Null
    /\ calls = NoCalls
    /\ served = 0
    /\ innerError = [b \in Backends |-> FALSE]
    /\ outOfOrder = FALSE
    /\ elapsed = 0
    /\ finishBy = NoCalls
    /\ CacheUnused
    /\ WorkersUnused
    /\ RouterUnused
    /\ AuthUnused

\* ---------------------------------------------------- analyze_with_model

\* self.timeouts: the fallbacks of __init__, in seconds.
Timeouts ==
    [b \in Backends |->
        CASE b = "keyword" -> 1 [] b = "toxic_bert" -> 3
          [] b = "mistral" -> 5 [] b = "claude" -> 10]

Max(a, b) == IF a >= b THEN a ELSE b

\* The time the call of b has returned by when it begins at time now:
\* asyncio.wait_for(run_analysis(), timeout=timeout) gives up after the
\* timeout; an unregistered name returns at once.
DeadlineOf(b, registered, now) ==
    IF b \in registered THEN now + Timeouts[b] ELSE now

\* The time the first step of task b runs: the tasks asyncio.create_task
\* made start as soon as the coroutine that made them suspends, whatever
\* the tasks created before them do.
StartedAt(b, ts, now, fb) == now

\* Mutant: the wait for a call begins only when the call is awaited.
ResumedAt_Adds(now, deadline, b) == now + Timeouts[b]

\* The time "await" of a call returns at the latest: the call has returned
\* by its deadline, and the coroutine may reach the await later than that.
ResumedAt(now, deadline, b) == Max(now, deadline)

\* The call analyze_with_model(b, text) up to its first suspension: an
\* unregistered name returns the "not available" result at once, a
\* registered one hands model.analyze to the executor and waits for it
\* under the timeout.
StartCall(b) ==
    /\ calls' = [calls EXCEPT ![b] = @ + 1]
    /\ IF b \in models
       THEN /\ callSt' = [callSt EXCEPT ![b] = "running"]
            /\ thread' = [thread EXCEPT ![b] = "running"]
            /\ callRes' = callRes
       ELSE /\ callSt' = [callSt EXCEPT ![b] = "done"]
            /\ callRes' = [callRes EXCEPT ![b] = UnavailableResult(b)]
            /\ thread' = thread
    /\ finishBy' = [finishBy EXCEPT ![b] = DeadlineOf(b, models, elapsed')]

\* Mutant: a call may complete, and be collected, before the tasks created
\* with it have started.
LoopIdle_NoOrder == TRUE

\* Every task created has run its first step. The event loop runs the first
\* step of each created task, in the order of creation, before it handles
\* the completion or the timeout of any call.
LoopIdle == \A c \in Backends : callSt[c] # "created"

\* The place of a backend in the order of registration.
Pos(b) == CHOOSE i \in 1..Len(RegOrder) : RegOrder[i] = b

\* The call of b completes while the call of a task created before it still
\* runs.
Overtakes(b) == \E c \in Backends : callSt[c] = "running" /\ Pos(c) < Pos(b)

\* model.analyze returned (score, categories, confidence) within the timeout.
Respond(b, p) ==
    /\ callSt[b] = "running"
    /\ LoopIdle
    /\ callSt' = [callSt EXCEPT ![b] = "done"]
    /\ callRes' = [callRes EXCEPT ![b] = OkResult(b, p)]
    /\ thread' = [thread EXCEPT ![b] = "finished"]
    /\ outOfOrder' = (outOfOrder \/ Overtakes(b))
    /\ UNCHANGED <<models, model_weights, pc, strategy, tasks, results, final,
                   response, calls, served, innerError>>
    /\ UNCHANGED <<elapsed, finishBy>>
    /\ UNCHANGED nonOrchVars

\* model.analyze raised within the timeout: except Exception. Only
\* KeywordAnalyzer.analyze lets an exception out.
Raise(b) ==
    /\ b \in RaisingBackends
    /\ callSt[b] = "running"
    /\ LoopIdle
    /\ callSt' = [callSt EXCEPT ![b] = "done"]
    /\ callRes' = [callRes EXCEPT ![b] = ExceptionResult(b)]
    /\ thread' = [thread EXCEPT ![b] = "finished"]
    /\ outOfOrder' = (outOfOrder \/ Overtakes(b))
    /\ UNCHANGED <<models, model_weights, pc, strategy, tasks, results, final,
                   response, calls, served, innerError>>
    /\ UNCHANGED <<elapsed, finishBy>>
    /\ UNCHANGED nonOrchVars

\* The computation of toxic_bert, mistral or claude failed (the model
\* inference or the API call raised): analyze catches the exception itself
\* and returns (0.0, [], 0.0), which analyze_with_model takes as an answer.
Swallow(b) ==
    /\ b \notin RaisingBackends
    /\ callSt[b] = "running"
    /\ LoopIdle
    /\ callSt' = [callSt EXCEPT ![b] = "done"]
    /\ callRes' = [callRes EXCEPT ![b] = OkResult(b, ErrorPayload)]
    /\ thread' = [thread EXCEPT ![b] = "finished"]
    /\ innerError' = [innerError EXCEPT ![b] = TRUE]
    /\ outOfOrder' = (outOfOrder \/ Overtakes(b))
    /\ UNCHANGED <<models, model_weights, pc, strategy, tasks, results, final,
                   response, calls, served>>
    /\ UNCHANGED <<elapsed, finishBy>>
    /\ UNCHANGED nonOrchVars

\* The timeout of asyncio.wait_for ran out first: except asyncio.TimeoutError.
\* The executor thread cannot be cancelled and runs on.
Expire(b) ==
    /\ callSt[b] = "running"
    /\ LoopIdle
    /\ callSt' = [callSt EXCEPT ![b] = "done"]
    /\ callRes' = [callRes EXCEPT ![b] = TimeoutResult(b)]
    /\ outOfOrder' = (outOfOrder \/ Overtakes(b))
    /\ UNCHANGED <<models, model_weights, pc, strategy, tasks, thread, results,
                   final, response, calls, served, innerError>>
    /\ UNCHANGED <<elapsed, finishBy>>
    /\ UNCHANGED nonOrchVars

\* Mutant: the late answer replaces the Timeout result.
AfterLateFinish_Overwrites(b, p) == OkResult(b, p)

\* What the call holds once a thread whose call timed out finishes: the
\* result the wait gave up on goes nowhere.
AfterLateFinish(b, p) == callRes[b]

\* The thread of a call that timed out finishes, with an answer or an
\* exception nobody waits for any more.
LateFinish(b, p) ==
    /\ callSt[b] = "done"
    /\ thread[b] = "running"
    /\ thread' = [thread EXCEPT ![b] = "finished"]
    /\ callRes' = [callRes EXCEPT ![b] = AfterLateFinish(b, p)]
    /\ UNCHANGED <<models, model_weights, pc, strategy, tasks, callSt, results,
                   final, response, calls, served>>
    /\ UNCHANGED <<innerError, outOfOrder, elapsed, finishBy>>
    /\ UNCHANGED nonOrchVars

\* ------------------------------------------------- analyze_with_strategy

\* From "final_result = self._aggregate_results(results, strategy)" to the
\* return, and the response analyze_text_v2 builds from it.
Finish(rs, s) ==
    /\ results' = rs
    /\ final' = FinalResult(rs, model_weights, s)
    /\ response' = RouterResponse(final')
    /\ pc' = "done"

\* Mutant: the first gate has no lower end.
BertGate_FromZero(score) == score <= BertGateHigh

\* 0.2 <= keyword_result.toxicity_score <= 0.7
BertGate(score) == BertGateLow <= score /\ score <= BertGateHigh

\* 0.3 <= keyword_result.toxicity_score <= 0.6
ClaudeGate(score) == ClaudeGateLow <= score /\ score <= ClaudeGateHigh

\* The model the cascade branch calls after the call of `after` returned,
\* "none" when it goes on to the aggregation.
NextCascadeModel(score, after, registered) ==
    IF ~BertGate(score) \/ after = "claude" THEN "none"
    ELSE IF after = "keyword" /\ "toxic_bert" \in registered THEN "toxic_bert"
    ELSE IF ClaudeGate(score) /\ "claude" \in registered THEN "claude"
    ELSE "none"

\* Mutant: balanced runs the priority models only.
BalancedPlan_PriorityOnly(registered) == FilterSeq(PriorityModels, registered)

\* The models the balanced and the accurate branches create a task for.
BalancedPlan(registered) == FilterSeq(RegOrder, registered)

AccuratePlan(registered) == FilterSeq(PriorityModels, registered)

\* asyncio.create_task for every model of the plan.
CreateTasks(plan) ==
    /\ tasks' = plan
    /\ callSt' = [b \in Backends |-> IF b \in Range(plan) THEN "created" ELSE callSt[b]]
    /\ calls' = [b \in Backends |-> IF b \in Range(plan) THEN calls[b] + 1 ELSE calls[b]]
    /\ UNCHANGED <<callRes, thread, finishBy>>

\* analyze_with_strategy(text, s), up to its first suspension.
Request(s) ==
    /\ pc = "idle"
    /\ served < MaxRequests
    /\ strategy' = s
    /\ UNCHANGED <<models, model_weights, served>>
    /\ UNCHANGED <<innerError, outOfOrder, elapsed>>
    /\ UNCHANGED nonOrchVars
    /\ CASE s = "fast" ->
              /\ StartCall("keyword")
              /\ tasks' = <<"keyword">>
              /\ pc' = "fast"
              /\ UNCHANGED <<results, final, response>>
         [] s = "cascade" ->
              /\ StartCall("keyword")
              /\ tasks' = <<"keyword">>
              /\ pc' = "cascade"
              /\ UNCHANGED <<results, final, response>>
         [] s \in {"balanced", "accurate"} ->
              LET plan == IF s = "balanced" THEN BalancedPlan(models)
                          ELSE AccuratePlan(models)
              IN IF plan = <<>>
                 THEN /\ Finish(<<>>, s)
                      /\ UNCHANGED <<tasks, callSt, callRes, thread, calls,
                                     finishBy>>
                 ELSE /\ CreateTasks(plan)
                      /\ pc' = "gather"
                      /\ UNCHANGED <<results, final, response>>
         [] OTHER ->
              /\ Finish(<<>>, s)
              /\ UNCHANGED <<tasks, callSt, callRes, thread, calls, finishBy>>

\* A created task starts to run: tasks start in the order of their creation.
TaskStart(b) ==
    /\ pc = "gather"
    /\ callSt[b] = "created"
    /\ \A i \in 1..Len(tasks) :
          tasks[i] = b => \A j \in 1..(i-1) : callSt[tasks[j]] # "created"
    /\ callSt' = [callSt EXCEPT ![b] = "running"]
    /\ thread' = [thread EXCEPT ![b] = "running"]
    /\ UNCHANGED <<models, model_weights, pc, strategy, tasks, callRes, results,
                   final, response, calls, served>>
    /\ UNCHANGED <<innerError, outOfOrder, elapsed>>
    /\ finishBy' = [finishBy EXCEPT ![b] =
                        DeadlineOf(b, models, StartedAt(b, tasks, elapsed, finishBy))]
    /\ UNCHANGED nonOrchVars

\* Mutant: fast falls through to the next stage of cascade.
FastResume_Escalates ==
    /\ pc = "fast"
    /\ callSt["keyword"] = "done"
    /\ results' = Append(results, callRes["keyword"])
    /\ elapsed' = ResumedAt(elapsed, finishBy["keyword"], "keyword")
    /\ StartCall("toxic_bert")
    /\ tasks' = <<"toxic_bert">>
    /\ pc' = "cascade"
    /\ UNCHANGED <<models, model_weights, strategy, final, response, served>>
    /\ UNCHANGED <<innerError, outOfOrder>>
    /\ UNCHANGED nonOrchVars

\* fast: the call of keyword returned.
FastResume ==
    /\ pc = "fast"
    /\ callSt["keyword"] = "done"
    /\ Finish(Append(results, callRes["keyword"]), strategy)
    /\ elapsed' = ResumedAt(elapsed, finishBy["keyword"], "keyword")
    /\ tasks' = <<>>
    /\ UNCHANGED finishBy
    /\ UNCHANGED <<models, model_weights, strategy, callSt, callRes, thread, calls,
                   served>>
    /\ UNCHANGED <<innerError, outOfOrder>>
    /\ UNCHANGED nonOrchVars

\* cascade: the call awaited returned; the next model is called, or the
\* results are aggregated.
CascadeResume ==
    /\ pc = "cascade"
    /\ tasks # <<>>
    /\ callSt[Head(tasks)] = "done"
    /\ elapsed' = ResumedAt(elapsed, finishBy[Head(tasks)], Head(tasks))
    /\ LET rs == Append(results, callRes[Head(tasks)])
           nxt == NextCascadeModel(rs[1].toxicity_score, Head(tasks), models)
       IN IF nxt = "none"
          THEN /\ Finish(rs, strategy)
               /\ tasks' = <<>>
               /\ UNCHANGED <<callSt, callRes, thread, calls, finishBy>>
          ELSE /\ results' = rs
               /\ StartCall(nxt)
               /\ tasks' = <<nxt>>
               /\ UNCHANGED <<pc, final, response>>
    /\ UNCHANGED <<models, model_weights, strategy, served>>
    /\ UNCHANGED <<innerError, outOfOrder>>
    /\ UNCHANGED nonOrchVars

\* Mutant: the task collected next is one that completed, whichever it is
\* (asyncio.as_completed).
Awaited_AsCompleted(ts, st) ==
    IF \E i \in 1..Len(ts) : st[ts[i]] = "done"
    THEN ts[CHOOSE i \in 1..Len(ts) :
               /\ st[ts[i]] = "done"
               /\ \A j \in (i + 1)..Len(ts) : st[ts[j]] # "done"]
    ELSE Head(ts)

\* "for model_name, task in tasks: result = await task": the task awaited
\* next is the first of the list, whatever the others have done.
Awaited(ts, st) == Head(ts)

\* balanced and accurate: "result = await task" of the next task in the
\* list; after the last one the results are aggregated.
GatherResume ==
    /\ pc = "gather"
    /\ tasks # <<>>
    /\ LET b == Awaited(tasks, callSt)
           rs == Append(results, callRes[b])
           rest == SelectSeq(tasks, LAMBDA x : x # b)
       IN /\ callSt[b] = "done"
          /\ elapsed' = ResumedAt(elapsed, finishBy[b], b)
          /\ tasks' = rest
          /\ IF rest = <<>>
             THEN Finish(rs, strategy)
             ELSE /\ results' = rs
                  /\ UNCHANGED <<pc, final, response>>
    /\ UNCHANGED <<models, model_weights, strategy, callSt, callRes, thread, calls,
                   served>>
    /\ UNCHANGED <<innerError, outOfOrder, finishBy>>
    /\ UNCHANGED nonOrchVars

\* The request is over: results, tasks and the returned dict are locals of
\* the call and go with it; the analyzer keeps models and model_weights.
\* Threads of the request that still run are followed no further.
Return ==
    /\ pc = "done"
    /\ pc' = "idle"
    /\ served' = served + 1
    /\ strategy' = "none"
    /\ tasks' = <<>>
    /\ callSt' = [b \in Backends |-> "none"]
    /\ callRes' = [b \in Backends |-> Null]
    /\ thread' = [b \in Backends |-> "none"]
    /\ results' = <<>>
    /\ final' = Null
    /\ response' = Null
    /\ calls' = NoCalls
    /\ innerError' = [b \in Backends |-> FALSE]
    /\ outOfOrder' = FALSE
    /\ elapsed' = 0
    /\ finishBy' = NoCalls
    /\ UNCHANGED <<models, model_weights>>
    /\ UNCHANGED nonOrchVars

Next ==
    \/ \E s \in Strategies \cup {UnknownStrategy} : Request(s)
    \/ \E b \in Backends : TaskStart(b)
    \/ \E b \in Backends : \E p \in Payloads(b) : Respond(b, p)
    \/ \E b \in Backends : Raise(b)
    \/ \E b \in Backends : Swallow(b)
    \/ \E b \in Backends : Expire(b)
    \/ \E b \in Backends : \E p \in Payloads(b) : LateFinish(b, p)
    \/ FastResume
    \/ CascadeResume
    \/ GatherResume
    \/ Return

Spec == Init /\ [][Next]_vars

\* What the event loop guarantees: a task that was created gets its first
\* step, the timer of asyncio.wait_for fires when the call has not returned,
\* and a coroutine whose awaited call returned is resumed.
Fairness ==
    /\ \A b \in Backends : WF_vars(TaskStart(b))
    /\ \A b \in Backends : WF_vars(Expire(b))
    /\ WF_vars(FastResume)
    /\ WF_vars(CascadeResume)
    /\ WF_vars(GatherResume)

\* The orchestrator under the scheduling of the event loop, with the weights
\* of __init__. No backend is required ever to answer.
FairInit == Init /\ model_weights = DefaultWeights

FairSpec == FairInit /\ [][Next]_vars /\ Fairness

\* ------------------------------------------------- the analyzers' caches

\* The analyzer classes that keep a cache of analyze_text results:
\* RinnaAnalyzer, ToxicBertAnalyzer, MistralAnalyzer, ClaudeAnalyzer.
CacheOwners == {"rinna", "toxic_bert", "mistral", "claude"}

\* cache_max_size, _max_cache_size, _cache_size: 100 in the four classes,
\* kept small here.
CacheMaxSize == 2

\* The last value datetime.now() takes.
MaxClock == 1

\* How many results one behaviour stores: one more than the cache holds.
MaxStores == CacheMaxSize + 1

\* The texts analysed: 1, 2, ... are texts in stripped lower case, -1 is
\* text 1 with surrounding blanks and capitals.
Texts == (1..(CacheMaxSize + 1)) \cup {-1}

\* The scores a computation yields, in tenths.
CacheScores == {2, 8}

\* cache_key = text.strip().lower()
Normalize(text) == IF text < 0 THEN -text ELSE text

\* The key a text is stored under: RinnaAnalyzer normalises the text, the
\* other three use the text itself.
KeyOf(kind, text) == IF kind = "rinna" THEN Normalize(text) ELSE text

\* The classes that evict min(..., key=timestamp); the other two evict
\* next(iter(cache)).
EvictsByTimestamp == {"toxic_bert", "mistral"}

\* The result dict of a computation that succeeded. "cached" is cache_hit
\* of ToxicBertAnalyzer and details["cached"] of ClaudeAnalyzer; the results
\* of the other two carry no such flag (FALSE throughout).
FreshResult(kind, s, now) ==
    [score |-> s,
     categories |-> IF kind = "rinna" THEN <<>> ELSE CategoriesFor(kind, s),
     confidence |-> IF kind = "rinna" THEN 8 ELSE ConfidenceFor(kind, s),
     cached |-> FALSE, error |-> FALSE, timestamp |-> now]

\* The result of the error paths: score 0.0 with the error, never stored.
ErrorResult(kind, now) ==
    [score |-> 0, categories |-> <<>>, confidence |-> 0,
     cached |-> FALSE, error |-> TRUE, timestamp |-> now]

\* The classes whose analyze_text stores the result of a fallback path:
\* RinnaAnalyzer stores the 0.0 that _calculate_toxicity_score returns from
\* its except branch, ClaudeAnalyzer the default result that _parse_response
\* returns from its except branch.
StoresFallback == {"rinna", "claude"}

\* The result of these fallback paths: RinnaAnalyzer's {"ai_score": 0.0,
\* "confidence": 0.8}, which carries no error, and ClaudeAnalyzer's
\* _get_default_result, with details["error"].
FallbackResult(kind, now) ==
    [score |-> 0, categories |-> <<>>,
     confidence |-> IF kind = "rinna" THEN 8 ELSE 0,
     cached |-> FALSE, error |-> (kind = "claude"), timestamp |-> now]

\* The place of a key in the cache, 0 when it is not there.
IndexOf(c, key) ==
    IF \E i \in 1..Len(c) : c[i].key = key
    THEN CHOOSE i \in 1..Len(c) : c[i].key = key
    ELSE 0

\* Mutant: a hit returns a default result instead of the stored one.
HitResult_Default(kind, entry) == ErrorResult(kind, entry.result.timestamp)

\* What a hit returns: the stored dict itself (rinna, mistral) or a copy of it
\* with the flag set (toxic_bert: cache_hit, claude: details["cached"]).
HitResult(kind, entry) ==
    IF kind \in {"toxic_bert", "claude"}
    THEN [entry.result EXCEPT !.cached = TRUE]
    ELSE entry.result

\* Mutant: a hit makes its entry the newest.
AfterHit_MoveToEnd(kind, c, i) ==
    SubSeq(c, 1, i - 1) \o SubSeq(c, i + 1, Len(c)) \o <<c[i]>>

\* The cache after a hit on its i-th entry. ClaudeAnalyzer sets
\* cached_result["details"]["cached"] on a shallow copy: the details dict is
\* the one of the stored entry, whose flag is set with it.
AfterHit(kind, c, i) ==
    IF kind = "claude" THEN [c EXCEPT ![i].result.cached = TRUE] ELSE c

\* Mutant: the size test lets one entry more in.
AtCapacity_OffByOne(c) == Len(c) > CacheMaxSize

\* len(self._cache) >= self._max_cache_size
AtCapacity(c) == Len(c) >= CacheMaxSize

\* Mutant: the newest entry is evicted.
Oldest_Newest(kind, c) == Len(c)

\* The place of the entry evicted: next(iter(cache)) is the first in dict
\* order; min(cache.items(), key=timestamp) is the first in dict order among
\* those of the least timestamp.
Oldest(kind, c) ==
    IF kind \in EvictsByTimestamp
    THEN CHOOSE i \in 1..Len(c) :
            /\ \A j \in 1..Len(c) : c[i].result.timestamp <= c[j].result.timestamp
            /\ \A j \in 1..(i - 1) : c[j].result.timestamp > c[i].result.timestamp
    ELSE 1

\* c without its i-th entry: del cache[key]
Remove(c, i) == SubSeq(c, 1, i - 1) \o SubSeq(c, i + 1, Len(c))

\* The cache after the result of text was stored: the eviction when the
\* cache is at capacity, then cache[key] = result (a copy in
\* ToxicBertAnalyzer and ClaudeAnalyzer). "text" and "fresh" remember the
\* text computed and what its computation returned, "failed" whether that
\* computation ended on a fallback path.
Store(kind, c, text, result) ==
    LET kept == IF AtCapacity(c) THEN Remove(c, Oldest(kind, c)) ELSE c
    IN Append(kept, [key |-> KeyOf(kind, text), text |-> text,
                     result |-> result, fresh |-> result, failed |-> FALSE])

\* The same store, of the result of a fallback path.
StoreFallback(kind, c, text, result) ==
    LET stored == Store(kind, c, text, result)
    IN [stored EXCEPT ![Len(stored)].failed = TRUE]

\* The key Store evicts, 0 when it evicts none.
Evicted(kind, c) == IF AtCapacity(c) THEN c[Oldest(kind, c)].key ELSE 0

\* The readings datetime.now() can give next, for the "timestamp" of a result
\* of ToxicBertAnalyzer or MistralAnalyzer: the wall clock does not run
\* backwards, and two readings can be equal. The results of the other two
\* classes carry no timestamp the cache looks at.
Readings ==
    IF analyzer \in EvictsByTimestamp
    THEN {n \in {clock, clock + 1} : n <= MaxClock}
    ELSE {clock}

\* The key of the call before, when that call was a hit; 0 otherwise.
JustRead == IF lastCall # Null /\ lastCall.hit THEN lastCall.key ELSE 0

\* analyze_text(text) with text in the cache.
AnalyzeTextHit(text) ==
    /\ analyzer \in CacheOwners
    /\ LET key == KeyOf(analyzer, text)
           i == IndexOf(cache, key)
       IN /\ i # 0
          /\ cache' = AfterHit(analyzer, cache, i)
          /\ lastCall' = [text |-> text, key |-> key, hit |-> TRUE,
                          stored |-> FALSE, evicted |-> 0, afterHit |-> JustRead,
                          failed |-> FALSE,
                          result |-> HitResult(analyzer, cache[i])]
    /\ UNCHANGED <<analyzer, clock, inserted>>
    /\ UNCHANGED nonCacheVars

\* analyze_text(text) with text not in the cache and the computation
\* succeeding with score s at time now: the result is stored and returned.
AnalyzeTextMiss(text, s, now) ==
    /\ analyzer \in CacheOwners
    /\ Len(inserted) < MaxStores
    /\ now \in Readings
    /\ LET key == KeyOf(analyzer, text)
           result == FreshResult(analyzer, s, now)
       IN /\ IndexOf(cache, key) = 0
          /\ cache' = Store(analyzer, cache, text, result)
          /\ inserted' = Append(inserted, key)
          /\ lastCall' = [text |-> text, key |-> key, hit |-> FALSE,
                          stored |-> TRUE, evicted |-> Evicted(analyzer, cache),
                          afterHit |-> JustRead, failed |-> FALSE,
                          result |-> result]
    /\ clock' = now
    /\ UNCHANGED analyzer
    /\ UNCHANGED nonCacheVars

\* analyze_text(text) with text not in the cache and the computation ending
\* on a fallback inside the try block (RinnaAnalyzer: the score computation
\* raised; ClaudeAnalyzer: the response could not be parsed): the fallback
\* result is stored like any other and returned.
AnalyzeTextFallback(text, now) ==
    /\ analyzer \in StoresFallback
    /\ Len(inserted) < MaxStores
    /\ now \in Readings
    /\ LET key == KeyOf(analyzer, text)
           result == FallbackResult(analyzer, now)
       IN /\ IndexOf(cache, key) = 0
          /\ cache' = StoreFallback(analyzer, cache, text, result)
          /\ inserted' = Append(inserted, key)
          /\ lastCall' = [text |-> text, key |-> key, hit |-> FALSE,
                          stored |-> TRUE, evicted |-> Evicted(analyzer, cache),
                          afterHit |-> JustRead, failed |-> TRUE,
                          result |-> result]
    /\ clock' = now
    /\ UNCHANGED analyzer
    /\ UNCHANGED nonCacheVars

\* analyze_text(text) with text not in the cache and the computation failing
\* on a path that returns before the store (model not loaded, exception in
\* the try block, API error or timeout, API disabled): the error or default
\* result is returned and nothing is stored.
AnalyzeTextError(text, now) ==
    /\ analyzer \in CacheOwners
    /\ now \in Readings
    /\ IndexOf(cache, KeyOf(analyzer, text)) = 0
    /\ lastCall' = [text |-> text, key |-> KeyOf(analyzer, text),
                    hit |-> FALSE, stored |-> FALSE, evicted |-> 0,
                    afterHit |-> JustRead, failed |-> TRUE,
                    result |-> ErrorResult(analyzer, now)]
    /\ clock' = now
    /\ UNCHANGED <<analyzer, cache, inserted>>
    /\ UNCHANGED nonCacheVars

\* No request is followed: the orchestrator stays as __init__ left it.
OrchUnused ==
    /\ models = {}
    /\ model_weights = DefaultWeights
    /\ pc = "idle"
    /\ strategy = "none"
    /\ tasks = <<>>
    /\ callSt = [b \in Backends |-> "none"]
    /\ callRes = [b \in Backends |-> Null]
    /\ thread = [b \in Backends |-> "none"]
    /\ results = <<>>
    /\ final = Null
    /\ response = Null
    /\ calls = NoCalls
    /\ served = 0
    /\ innerError = [b \in Backends |-> FALSE]
    /\ outOfOrder = FALSE
    /\ elapsed = 0
    /\ finishBy = NoCalls

\* One analyzer with an empty cache.
CacheInit ==
    /\ analyzer \in CacheOwners
    /\ cache = <<>>
    /\ clock = 0
    /\ lastCall = Null
    /\ inserted = <<>>
    /\ OrchUnused
    /\ WorkersUnused
    /\ RouterUnused
    /\ AuthUnused

CacheNext ==
    \/ \E text \in Texts : AnalyzeTextHit(text)
    \/ \E text \in Texts : \E s \in CacheScores : \E now \in 0..MaxClock :
          AnalyzeTextMiss(text, s, now)
    \/ \E text \in Texts : \E now \in 0..MaxClock : AnalyzeTextFallback(text, now)
    \/ \E text \in Texts : \E now \in 0..MaxClock : AnalyzeTextError(text, now)

\* The analyze_text calls on one analyzer, one after the other.
CacheSpec == CacheInit /\ [][CacheNext]_vars


\* ---------------------------------------------- routers/analyze_v2.py

\* The requests of the v2 endpoints in flight at the same time.
MaxInFlight == 2

Requests == 1..MaxInFlight

\* The strategies the requests ask for, and what a call of a backend
\* returns to a request: an answer with a low or a high score, or a timeout.
RouterStrategies == {"fast", "balanced"}

RouterScores == {2, 8}

RouterOutcomes(b) ==
    {OkResult(b, [score |-> sc, categories |-> CategoriesFor(b, sc),
                  confidence |-> ConfidenceFor(b, sc)]) : sc \in RouterScores}
    \cup {TimeoutResult(b)}

\* The backends MultiModelAnalyzer() finds it can load.
RouterModelSets == {{"keyword"}, {"keyword", "toxic_bert"}}

\* The object MultiModelAnalyzer() returns: __init__ has no await, and the
\* name "analyzer" is bound only once it has returned.
NewAnalyzer(registered) ==
    [models |-> registered, model_weights |-> DefaultWeights, timeouts |-> Timeouts]

\* A request that has not run yet.
NewRequest(s) ==
    [pc |-> "start", strategy |-> s, sawNone |-> FALSE, used |-> Null,
     pending |-> <<>>, results |-> <<>>, answered |-> <<>>, final |-> Null]

\* Mutant: the second test is left out.
Recheck_Always(a) == TRUE

\* The second "if analyzer is None", under the lock.
Recheck(a) == a = Null

\* Mutant: the outcomes are collected in a list of the analyzer, which every
\* request in flight aggregates.
Collected_Shared(rq, r, res) ==
    [q \in DOMAIN rq |->
        IF rq[q].pc = "wait" THEN [rq[q] EXCEPT !.results = Append(@, res)]
        ELSE rq[q]]

\* results.append(result): results is a local of the call.
Collected(rq, r, res) == [rq EXCEPT ![r].results = Append(@, res)]

\* The first "if analyzer is None".
RCheck(r) ==
    /\ req[r].pc = "start"
    /\ req' = [req EXCEPT ![r].pc = IF router_analyzer = Null THEN "lock" ELSE "call",
                          ![r].sawNone = (router_analyzer = Null)]
    /\ UNCHANGED <<router_analyzer, analyzer_lock, constructions>>
    /\ UNCHANGED nonRouterVars

\* "async with analyzer_lock": the request waits until the lock is free.
RAcquire(r) ==
    /\ req[r].pc = "lock"
    /\ analyzer_lock = 0
    /\ analyzer_lock' = r
    /\ req' = [req EXCEPT ![r].pc = "locked"]
    /\ UNCHANGED <<router_analyzer, constructions>>
    /\ UNCHANGED nonRouterVars

\* Under the lock: "if analyzer is None: analyzer = MultiModelAnalyzer()".
RConstruct(r, registered) ==
    /\ req[r].pc = "locked"
    /\ IF Recheck(router_analyzer)
       THEN /\ router_analyzer' = NewAnalyzer(registered)
            /\ constructions' = constructions + 1
       ELSE UNCHANGED <<router_analyzer, constructions>>
    /\ req' = [req EXCEPT ![r].pc = "unlock"]
    /\ UNCHANGED analyzer_lock
    /\ UNCHANGED nonRouterVars

\* The end of the "async with" block.
RRelease(r) ==
    /\ req[r].pc = "unlock"
    /\ analyzer_lock' = 0
    /\ req' = [req EXCEPT ![r].pc = "call"]
    /\ UNCHANGED <<router_analyzer, constructions>>
    /\ UNCHANGED nonRouterVars

\* analyzer.analyze_with_strategy(text, strategy) on the object the global
\* names now: the calls of the plan are made.
RAnalyze(r) ==
    /\ req[r].pc = "call"
    /\ router_analyzer # Null
    /\ req' = [req EXCEPT
                 ![r].pc = "wait",
                 ![r].used = router_analyzer,
                 ![r].pending = IF req[r].strategy = "fast" THEN <<"keyword">>
                                ELSE BalancedPlan(router_analyzer.models)]
    /\ UNCHANGED <<router_analyzer, analyzer_lock, constructions>>
    /\ UNCHANGED nonRouterVars

\* The call the request awaits returned res; after the last one the results
\* are aggregated with the weights of the analyzer.
RAnswer(r, res) ==
    /\ req[r].pc = "wait"
    /\ req[r].pending # <<>>
    /\ res \in RouterOutcomes(Head(req[r].pending))
    /\ LET got == Collected(req, r, res)
           last == Len(req[r].pending) = 1
       IN req' = [got EXCEPT
                    ![r].answered = Append(@, res),
                    ![r].pending = Tail(@),
                    ![r].pc = IF last THEN "done" ELSE "wait",
                    ![r].final = IF last
                                 THEN FinalResult(got[r].results,
                                                  router_analyzer.model_weights,
                                                  req[r].strategy)
                                 ELSE Null]
    /\ UNCHANGED <<router_analyzer, analyzer_lock, constructions>>
    /\ UNCHANGED nonRouterVars

\* Requests arrive together at a module that was just imported.
RouterInit ==
    /\ router_analyzer = Null
    /\ analyzer_lock = 0
    /\ constructions = 0
    /\ req \in [Requests -> {NewRequest(s) : s \in RouterStrategies}]
    /\ OrchUnused
    /\ CacheUnused
    /\ WorkersUnused
    /\ AuthUnused

RouterNext ==
    \/ \E r \in Requests : RCheck(r)
    \/ \E r \in Requests : RAcquire(r)
    \/ \E r \in Requests : \E registered \in RouterModelSets : RConstruct(r, registered)
    \/ \E r \in Requests : RRelease(r)
    \/ \E r \in Requests : RAnalyze(r)
    \/ \E r \in Requests : \E b \in Backends : \E res \in RouterOutcomes(b) :
          RAnswer(r, res)

\* The requests of the v2 endpoints; every await is a point where another
\* request may run.
RouterSpec == RouterInit /\ [][RouterNext]_vars


\* ------------------------------------ analyze_text in executor threads

\* The executor threads that run model.analyze, and with it analyze_text,
\* of one analyzer at the same time: one per request in flight.
Workers == {1, 2}

\* The analyzers the orchestrator calls through run_in_executor.
ThreadedOwners == {"toxic_bert", "mistral", "claude"}

\* The texts the threads analyse: those in the cache and two more.
WorkerTexts == 1..(CacheMaxSize + 2)

\* The cache after analyze_text of the texts 1..k, one after the other.
RECURSIVE Prefilled(_, _)
Prefilled(kind, k) ==
    IF k = 0 THEN <<>>
    ELSE Store(kind, Prefilled(kind, k - 1), k, FreshResult(kind, 2, 0))

\* A thread that has not been given a call.
IdleWorker ==
    [pc |-> "idle", text |-> 0, result |-> Null, seen |-> 0, oldest |-> 0,
     outcome |-> Null, raced |-> FALSE]

\* "if text in self._cache": a hit returns the stored result, a miss goes
\* on to the computation.
WLookup(w, text) ==
    /\ workers[w].pc = "idle"
    /\ LET i == IndexOf(cache, KeyOf(analyzer, text))
       IN IF i # 0
          THEN /\ cache' = AfterHit(analyzer, cache, i)
               /\ workers' = [workers EXCEPT ![w].pc = "done", ![w].text = text,
                                ![w].outcome = HitResult(analyzer, cache[i])]
          ELSE /\ cache' = cache
               /\ workers' = [workers EXCEPT ![w].pc = "compute", ![w].text = text]
    /\ UNCHANGED analyzer
    /\ UNCHANGED nonWorkerVars

\* The model inference or the API call returned a score: the result dict.
WCompute(w, sc) ==
    /\ workers[w].pc = "compute"
    /\ workers' = [workers EXCEPT ![w].pc = "check",
                     ![w].result = FreshResult(analyzer, sc, clock)]
    /\ UNCHANGED <<analyzer, cache>>
    /\ UNCHANGED nonWorkerVars

\* "if len(self._cache) >= self._max_cache_size"
WCheckSize(w) ==
    /\ workers[w].pc = "check"
    /\ workers' = [workers EXCEPT
                     ![w].pc = IF AtCapacity(cache) THEN "pick" ELSE "insert",
                     ![w].seen = Len(cache)]
    /\ UNCHANGED <<analyzer, cache>>
    /\ UNCHANGED nonWorkerVars

\* The result of the except branch the thread ends in when the eviction
\* raises: the error dict, or ClaudeAnalyzer's default result.
WFailed(w) ==
    [workers EXCEPT ![w].pc = "done", ![w].raced = TRUE,
                    ![w].outcome = ErrorResult(analyzer, clock)]

\* The choice of the entry to evict. next(iter(cache)) and min(...) raise on
\* an empty dict; min(cache.items(), key=...) calls the key function for
\* every item and raises RuntimeError when the dict changed size since the
\* iteration began.
WPick(w) ==
    /\ workers[w].pc = "pick"
    /\ IF cache = <<>>
          \/ (analyzer \in EvictsByTimestamp /\ Len(cache) # workers[w].seen)
       THEN workers' = WFailed(w)
       ELSE workers' = [workers EXCEPT ![w].pc = "delete",
                          ![w].oldest = cache[Oldest(analyzer, cache)].key]
    /\ UNCHANGED <<analyzer, cache>>
    /\ UNCHANGED nonWorkerVars

\* "del self._cache[oldest_key]": KeyError when another thread deleted the
\* key since it was chosen.
WDelete(w) ==
    /\ workers[w].pc = "delete"
    /\ LET i == IndexOf(cache, workers[w].oldest)
       IN IF i = 0
          THEN /\ workers' = WFailed(w)
               /\ cache' = cache
          ELSE /\ workers' = [workers EXCEPT ![w].pc = "insert"]
               /\ cache' = Remove(cache, i)
    /\ UNCHANGED analyzer
    /\ UNCHANGED nonWorkerVars

\* "self._cache[text] = result": a key already there keeps its place.
WInsert(w) ==
    /\ workers[w].pc = "insert"
    /\ LET key == KeyOf(analyzer, workers[w].text)
           i == IndexOf(cache, key)
           entry == [key |-> key, text |-> workers[w].text,
                     result |-> workers[w].result, fresh |-> workers[w].result,
                     failed |-> FALSE]
       IN cache' = IF i = 0 THEN Append(cache, entry) ELSE [cache EXCEPT ![i] = entry]
    /\ workers' = [workers EXCEPT ![w].pc = "done", ![w].outcome = workers[w].result]
    /\ UNCHANGED analyzer
    /\ UNCHANGED nonWorkerVars

\* One analyzer whose cache holds the results of earlier calls, and a call
\* for each thread.
WorkerInit ==
    /\ analyzer \in ThreadedOwners
    /\ \E k \in 0..CacheMaxSize : cache = Prefilled(analyzer, k)
    /\ clock = 0
    /\ lastCall = Null
    /\ inserted = <<>>
    /\ workers = [w \in Workers |-> IdleWorker]
    /\ OrchUnused
    /\ RouterUnused
    /\ AuthUnused

WorkerNext ==
    \/ \E w \in Workers : \E text \in WorkerTexts : WLookup(w, text)
    \/ \E w \in Workers : \E sc \in CacheScores : WCompute(w, sc)
    \/ \E w \in Workers : WCheckSize(w)
    \/ \E w \in Workers : WPick(w)
    \/ \E w \in Workers : WDelete(w)
    \/ \E w \in Workers : WInsert(w)

\* The analyze_text calls of the threads, interleaved: no lock guards the
\* cache.
WorkerSpec == WorkerInit /\ [][WorkerNext]_vars


\* ------------------------------------------------- middleware/auth.py

\* daily_limit of the keys the registration endpoint creates: 100 in the
\* source, kept small here.
DailyLimit == 2

\* The last day followed.
MaxDays == 2

\* The keys of table api_keys, and what a caller may present: one of them,
\* no key at all, or a key that is in no row.
ApiKeys == {"k1", "k2"}

NoKey == ""

UnknownKey == "bogus"

Presented == ApiKeys \cup {NoKey, UnknownKey}

\* request_count of the row of key k and day d, 0 when there is no row.
CountOf(u, k, d) == IF <<k, d>> \in DOMAIN u THEN u[<<k, d>>] ELSE 0

\* The table with the row of key k and day d set to count n.
WithCount(u, k, d, n) ==
    [row \in DOMAIN u \cup {<<k, d>>} |-> IF row = <<k, d>> THEN n ELSE u[row]]

\* Mutant: the limit itself is still admitted.
OverLimit_Strict(count, limit) == count > limit

\* usage.request_count >= api_key_record.daily_limit
OverLimit(count, limit) == count >= limit

\* verify_api_key(k): 403 without a key or with a key that has no active
\* row; otherwise the row of the day is created with count 0 when it is
\* missing, and the call is answered 429 when the count has reached the
\* limit, or the count is raised by one and the call admitted.
VerifyApiKey(k) ==
    /\ LET valid == k \in ApiKeys /\ api_keys[k].is_active
           created == IF valid /\ <<k, today>> \notin DOMAIN usage
                      THEN WithCount(usage, k, today, 0) ELSE usage
           status == IF ~valid THEN 403
                     ELSE IF OverLimit(created[<<k, today>>], api_keys[k].daily_limit)
                          THEN 429 ELSE 200
       IN /\ usage' = IF status = 200
                      THEN WithCount(created, k, today, created[<<k, today>>] + 1)
                      ELSE created
          /\ lastAuth' = [key |-> k, status |-> status, day |-> today,
                          before |-> usage]
    /\ UNCHANGED <<api_keys, today>>
    /\ UNCHANGED nonAuthVars

\* date.today() moves on.
NextDay ==
    /\ today < MaxDays
    /\ today' = today + 1
    /\ UNCHANGED <<api_keys, usage, lastAuth>>
    /\ UNCHANGED nonAuthVars

\* The keys as the registration endpoint made them, some of them
\* deactivated since, and no usage yet.
AuthInit ==
    /\ api_keys \in [ApiKeys -> {[is_active |-> a, daily_limit |-> DailyLimit] :
                                    a \in BOOLEAN}]
    /\ usage = <<>>
    /\ today = 1
    /\ lastAuth = Null
    /\ OrchUnused
    /\ CacheUnused
    /\ WorkersUnused
    /\ RouterUnused

AuthNext ==
    \/ \E k \in Presented : VerifyApiKey(k)
    \/ NextDay

\* The verify_api_key calls, one after the other: the function has no await.
AuthSpec == AuthInit /\ [][AuthNext]_vars


\* ================================================================ claims

Done == pc = "done"

\* The "error" key of the details of the returned dict, NoError when the
\* details hold none.
DetailsError ==
    IF "error" \in DOMAIN final.details THEN final.details.error ELSE NoError

\* The places of the results that carry no error.
Succeeded == {i \in 1..Len(results) : results[i].error = NoError}

Failed == {i \in 1..Len(results) : results[i].error # NoError}

\* What each place of results adds to the two sums of the weighted mean: a
\* failed outcome adds nothing to either.
ScoreTerms ==
    [i \in 1..Len(results) |->
        IF i \in Succeeded
        THEN results[i].toxicity_score * model_weights[results[i].model_name]
        ELSE 0]

WeightTerms ==
    [i \in 1..Len(results) |->
        IF i \in Succeeded THEN model_weights[results[i].model_name] ELSE 0]

\* The returned score equals n/d.
ScoreEquals(n, d) ==
    final.toxicity_score.num * d = n * final.toxicity_score.den

\* C1: whenever a request ends with at least one successful outcome, the
\* aggregated score is the sum of score x weight over the successful
\* outcomes divided by the sum of their weights, failed outcomes adding
\* nothing to either sum (when the weights of the successful outcomes sum to
\* zero the code answers 0.0); scores 0.8 and 0.2 under weights 0.6 and 0.4
\* give 0.56.
C1_WeightedMean ==
    (Done /\ Succeeded # {}) =>
        /\ SumSeq(WeightTerms) > 0
              => ScoreEquals(SumSeq(ScoreTerms), SumSeq(WeightTerms))
        /\ SumSeq(WeightTerms) = 0 => ScoreEquals(0, 1)
        /\ ( /\ Cardinality(Succeeded) = 2
             /\ \E i, j \in Succeeded :
                   /\ results[i].toxicity_score = 8
                   /\ model_weights[results[i].model_name] = 12
                   /\ results[j].toxicity_score = 2
                   /\ model_weights[results[j].model_name] = 8 )
              => ScoreEquals(56, 10)

\* C1 witness: keyword answered 0.8 under weight 0.6, toxic_bert 0.2 under
\* weight 0.4, a third backend failed, and the request returned 0.56.
C1_Witness ==
    /\ Done
    /\ Cardinality(Succeeded) = 2
    /\ Failed # {}
    /\ \E i, j \in Succeeded :
          /\ results[i].toxicity_score = 8
          /\ model_weights[results[i].model_name] = 12
          /\ results[j].toxicity_score = 2
          /\ model_weights[results[j].model_name] = 8
    /\ ScoreEquals(56, 10)

\* C2: in every result analyze_with_strategy returns, is_toxic is true
\* exactly when the aggregated score is at least 0.3.
C2_ToxicIffAtLeastThreshold ==
    Done =>
        (final.is_toxic <=>
            10 * final.toxicity_score.num >= 3 * 10 * final.toxicity_score.den)

\* C2 witness: several backends succeeded, the weighted mean is exactly 0.3
\* and the result is toxic.
C2_Witness ==
    /\ Done
    /\ Cardinality(Succeeded) >= 2
    /\ \E i, j \in Succeeded :
          results[i].toxicity_score # results[j].toxicity_score
    /\ ScoreEquals(3, 1)
    /\ final.is_toxic


\* How often a model name occurs in results.
Entries(b) == {i \in 1..Len(results) : results[i].model_name = b}

\* The backends analyze_with_model was called for.
Attempted == {b \in Backends : calls[b] > 0}

\* C3 (the claim as stated; the code violates it): when every backend
\* attempted failed, the caller is not answered with an ordinary success of
\* score 0.0 and is_toxic false.
C3_AllFailedIsExplicitError ==
    (Done /\ results # <<>> /\ Succeeded = {}) =>
        ~( /\ response.status = 200
           /\ response.toxicity_score = Zero
           /\ response.is_toxic = FALSE )

\* C4: when at least one backend succeeded and another failed, the request
\* returns a normal result (no error flag, HTTP 200) computed from the
\* successful outcomes only, and every call that returned successfully is in
\* the results as it returned: no outcome of a sibling is lost or altered.
C4_PartialFailureAbsorbed ==
    (Done /\ Succeeded # {} /\ Failed # {}) =>
        /\ DetailsError = NoError
        /\ response.status = 200
        /\ response.toxicity_score = final.toxicity_score
        /\ response.is_toxic = final.is_toxic
        /\ Len(final.models_used) = Cardinality(Succeeded)
        /\ \A i \in Failed : results[i].model_name \notin Range(final.models_used)
        /\ SumSeq(WeightTerms) > 0
              => ScoreEquals(SumSeq(ScoreTerms), SumSeq(WeightTerms))
        /\ \A c \in Backends :
              (callSt[c] = "done" /\ callRes[c].error = NoError)
                 => \E i \in Succeeded :
                       results[i] = callRes[c] /\ c \in Range(final.models_used)

\* C4 witness: a balanced request in which one backend timed out, one raised
\* and two succeeded, answered with HTTP 200.
C4_Witness ==
    /\ Done
    /\ strategy = "balanced"
    /\ Cardinality(Succeeded) = 2
    /\ \E i, j \in Failed :
          results[i].error = ErrTimeout /\ results[j].error = ErrBackend
    /\ response.status = 200
    /\ DetailsError = NoError

\* The wait for backend b ran into the timeout.
TimedOut(b) == callSt[b] = "done" /\ callRes[b].error = ErrTimeout

\* results without the outcomes of backend b.
Without(rs, b) == SelectSeq(rs, LAMBDA r : r.model_name # b)

\* C5: a call that ran into its timeout leaves exactly one outcome, with
\* failure Timeout, in the results of the request; the score returned is the
\* score of the other outcomes alone; and whatever the backend delivers
\* after the deadline changes nothing: until the request is over the outcome
\* stays the Timeout one.
C5_TimeoutOutcome ==
    /\ [](\A b \in Backends : TimedOut(b) =>
            /\ callRes[b] = TimeoutResult(b)
            /\ Cardinality(Entries(b)) <= 1
            /\ \A i \in Entries(b) : results[i] = TimeoutResult(b)
            /\ Done =>
                 /\ Cardinality(Entries(b)) = 1
                 /\ b \notin Range(final.models_used)
                 /\ final.toxicity_score
                      = FinalScore(ValidResults(Without(results, b)), model_weights))
    /\ [][\A b \in Backends : (TimedOut(b) /\ served' = served) =>
            (callSt'[b] = "done" /\ callRes'[b] = callRes[b])]_vars

\* C5 witness: a balanced request returned; one backend had timed out, its
\* thread finished afterwards, and another backend succeeded.
C5_Witness ==
    /\ Done
    /\ strategy = "balanced"
    /\ Succeeded # {}
    /\ \E b \in Backends : TimedOut(b) /\ thread[b] = "finished"

\* C6 (the claim as stated; the code violates it): under cascade keyword is
\* called first, toxic_bert is called exactly when the keyword score is in
\* [0.2, 0.7] and claude exactly when it is in [0.3, 0.6].
C6_CascadeGates ==
    (strategy = "cascade" /\ Done) =>
        /\ calls["keyword"] = 1
        /\ results[1].model_name = "keyword"
        /\ calls["toxic_bert"] > 0
              <=> (2 <= results[1].toxicity_score /\ results[1].toxicity_score <= 7)
        /\ calls["claude"] > 0
              <=> (3 <= results[1].toxicity_score /\ results[1].toxicity_score <= 6)
        /\ calls["mistral"] = 0

\* What holds of the cascade branch instead: a later model is called exactly
\* when it is registered and its gate holds, at most once, and a model not
\* called is not among models_used.
CascadeGatesOfRegistered ==
    (strategy = "cascade" /\ Done) =>
        /\ calls["keyword"] = 1
        /\ results[1].model_name = "keyword"
        /\ calls["toxic_bert"] = 1
              <=> ( /\ "toxic_bert" \in models
                    /\ 2 <= results[1].toxicity_score
                    /\ results[1].toxicity_score <= 7 )
        /\ calls["claude"] = 1
              <=> ( /\ "claude" \in models
                    /\ 3 <= results[1].toxicity_score
                    /\ results[1].toxicity_score <= 6 )
        /\ \A b \in Backends : calls[b] <= 1
        /\ calls["mistral"] = 0
        /\ \A b \in Backends : calls[b] = 0 => b \notin Range(final.models_used)

\* C7: under fast, analyze_with_model is called for keyword exactly once and
\* for no other backend, whatever the registry holds; no other backend's
\* analyze is ever started.
C7_FastOnlyKeyword ==
    strategy = "fast" =>
        /\ calls = [NoCalls EXCEPT !["keyword"] = 1]
        /\ \A b \in Backends \ {"keyword"} :
              callSt[b] = "none" /\ thread[b] = "none"
        /\ \A i \in 1..Len(results) : results[i].model_name = "keyword"
        /\ Done => Len(results) = 1

\* C7 witness: a fast request returned with every backend registered and
\* keyword successful.
C7_Witness ==
    /\ strategy = "fast"
    /\ Done
    /\ models = Backends
    /\ Succeeded # {}
    /\ final.models_used = <<"keyword">>

\* C8: under balanced every registered backend is called exactly once, all
\* of them are dispatched before the first outcome is collected, and the
\* request ends with exactly one outcome per registered backend.
C8_BalancedOneOutcomeEach ==
    strategy = "balanced" =>
        /\ calls = [b \in Backends |-> IF b \in models THEN 1 ELSE 0]
        /\ \A b \in models : callSt[b] # "none"
        /\ results # <<>> => \A b \in models : callSt[b] \in {"running", "done"}
        /\ \A b \in Backends : Cardinality(Entries(b)) <= 1
        /\ Done =>
              /\ Len(results) = Cardinality(models)
              /\ \A b \in models : Cardinality(Entries(b)) = 1
              /\ DetailsError = NoError =>
                    final.details.total_models = Cardinality(models)

\* C8 witness: a balanced request over the four backends returned, with
\* successes and failures among its four outcomes.
C8_Witness ==
    /\ strategy = "balanced"
    /\ Done
    /\ models = Backends
    /\ Len(results) = 4
    /\ Succeeded # {}
    /\ Failed # {}

\* C9 (the claim as stated; the code violates it): under accurate the
\* backends attempted are exactly keyword, toxic_bert and claude.
C9_AccuratePrioritySubset ==
    strategy = "accurate" => Attempted = Range(PriorityModels)

\* What holds of the accurate branch instead: the backends attempted are the
\* registered ones among keyword, toxic_bert and claude, each once, and
\* mistral is never called.
AccurateRegisteredPriority ==
    strategy = "accurate" =>
        /\ Attempted = Range(PriorityModels) \cap models
        /\ \A b \in Backends : calls[b] <= 1
        /\ callSt["mistral"] = "none" /\ thread["mistral"] = "none"

\* C10 (the claim as stated; the code violates it): a request whose strategy
\* is none of the four is rejected with an InvalidStrategy error and no
\* backend is dispatched.
C10_UnknownStrategyRejected ==
    (Done /\ strategy \notin Strategies) =>
        /\ Attempted = {}
        /\ DetailsError = "InvalidStrategy"

\* What holds instead: no backend is dispatched and the request is answered
\* with the dict of an empty result list (score 0.0, not toxic, details
\* error "No results"), which the v2 endpoint cannot turn into a response:
\* it answers HTTP 500.
UnknownStrategyNoResults ==
    (Done /\ strategy \notin Strategies) =>
        /\ Attempted = {}
        /\ DetailsError = "No results"
        /\ final.toxicity_score = Zero /\ final.is_toxic = FALSE
        /\ response.status = 500

\* What the plan of the request's strategy names: keyword under fast; under
\* cascade keyword, toxic_bert when the keyword score is in [0.2, 0.7] and
\* claude when it is in [0.3, 0.6]; the registry under balanced; keyword,
\* toxic_bert and claude under accurate.
PlanNames ==
    CASE strategy = "fast" -> {"keyword"}
      [] strategy = "cascade" ->
            {"keyword"}
            \cup (IF results # <<>> /\ BertGate(results[1].toxicity_score)
                  THEN {"toxic_bert"} ELSE {})
            \cup (IF results # <<>> /\ ClaudeGate(results[1].toxicity_score)
                  THEN {"claude"} ELSE {})
      [] strategy = "balanced" -> models
      [] strategy = "accurate" -> Range(PriorityModels)
      [] OTHER -> {}

\* C11 (the claim as stated; the code violates it): when the request is
\* over, every backend its plan names that is not registered has an outcome
\* with failure "not available" among the results, and is not among
\* models_used.
C11_UnregisteredRecorded ==
    Done =>
        \A b \in PlanNames \ models :
            /\ \E i \in Entries(b) : results[i] = UnavailableResult(b)
            /\ b \notin Range(final.models_used)

\* What holds instead: a backend that is not registered has the "not
\* available" outcome, once, exactly when analyze_with_model was called for
\* it, which only the first stage of fast and cascade does; it is never
\* among models_used.
UnavailableOnlyWhenCalled ==
    Done =>
        \A b \in Backends \ models :
            /\ b \in Attempted <=> Entries(b) # {}
            /\ b \in Attempted => b = "keyword" /\ strategy \in {"fast", "cascade"}
            /\ Cardinality(Entries(b)) <= 1
            /\ \A i \in Entries(b) : results[i] = UnavailableResult(b)
            /\ b \notin Range(final.models_used)

\* C12 (the claim as stated; the code violates it): a backend whose
\* computation failed with an error other than a timeout has an outcome with
\* an error, and is not among the successful outcomes the weighted mean and
\* models_used are computed from.
C12_BackendErrorRecorded ==
    Done =>
        \A b \in Backends : \A i \in Entries(b) :
            (innerError[b] \/ callRes[b].error = ErrBackend) =>
                /\ results[i].error # NoError
                /\ b \notin Range(final.models_used)

\* What holds instead: an exception that leaves model.analyze (keyword) is
\* recorded as an outcome with the error; an error toxic_bert, mistral or
\* claude catch themselves is recorded as a successful outcome of score 0.0
\* and confidence 0.0.
RaisedRecordedSwallowedNot ==
    Done =>
        \A b \in Backends : \A i \in Entries(b) :
            /\ callRes[b].error = ErrBackend =>
                  results[i] = ExceptionResult(b) /\ b \notin Range(final.models_used)
            /\ innerError[b] =>
                  /\ results[i] = OkResult(b, ErrorPayload)
                  /\ b \in Range(final.models_used)

\* C13 (the claim as stated; the code violates it): every failed outcome of
\* the request is in details.model_results of the returned dict, with its
\* error.
C13_FailuresInDetails ==
    Done =>
        \A i \in Failed :
            /\ "model_results" \in DOMAIN final.details
            /\ results[i].model_name \in DOMAIN final.details.model_results
            /\ final.details.model_results[results[i].model_name].error
                  = results[i].error

\* What holds instead: the failed outcomes are in details.model_results when
\* at least one outcome is successful; when none is, details holds the one
\* key "error".
FailuresInDetailsUnlessAllFailed ==
    Done =>
        /\ Succeeded # {} =>
              \A i \in Failed :
                  final.details.model_results[results[i].model_name].error
                     = results[i].error
        /\ (Succeeded = {} /\ Failed # {}) =>
              final.details = [error |-> "All models failed"]

\* The categories of the successful outcomes, in the order of results.
SucceededCategories == AllCategories(ValidResults(results))

\* The first place of a category name in a list of categories.
FirstOf(cats, name) ==
    CHOOSE i \in 1..Len(cats) :
        /\ cats[i].name = name
        /\ \A j \in 1..(i - 1) : cats[j].name # name

\* C14: the results are in registration order; the final category list holds
\* every category name of the successful outcomes once and no other; and the
\* entry of a name is the first of that name among the categories of the
\* successful outcomes taken in that order.
C14_CategoriesFirstWins ==
    (Done /\ Succeeded # {}) =>
        /\ \A i, j \in 1..Len(results) :
              i < j => Pos(results[i].model_name) < Pos(results[j].model_name)
        /\ \A i, j \in 1..Len(final.categories) :
              final.categories[i].name = final.categories[j].name => i = j
        /\ {final.categories[i].name : i \in 1..Len(final.categories)}
              = {SucceededCategories[i].name : i \in 1..Len(SucceededCategories)}
        /\ \A i \in 1..Len(final.categories) :
              final.categories[i]
                 = SucceededCategories[FirstOf(SucceededCategories,
                                               final.categories[i].name)]
        /\ \A k \in Failed : results[k].categories = <<>>

\* C14 witness: keyword and toxic_bert both answered a category "severe",
\* with different scores, and the final list holds the one of keyword.
C14_Witness ==
    /\ Done
    /\ \E i, j \in Succeeded :
          /\ i < j
          /\ results[i].categories # <<>> /\ results[j].categories # <<>>
          /\ results[i].categories[1].name = results[j].categories[1].name
          /\ results[i].categories[1].score # results[j].categories[1].score
          /\ results[i].categories[1] \in Range(final.categories)
          /\ results[j].categories[1] \notin Range(final.categories)

\* What each place of results adds to the sum of the confidences.
ConfidenceTerms ==
    [i \in 1..Len(results) |->
        IF i \in Succeeded THEN results[i].confidence ELSE 0]

\* C15: when at least one outcome is successful, the confidence returned is
\* the sum of the confidences of the successful outcomes divided by their
\* number; the failed outcomes are not counted.
C15_ConfidenceMean ==
    (Done /\ Succeeded # {}) =>
        final.confidence.num * Cardinality(Succeeded)
           = SumSeq(ConfidenceTerms) * final.confidence.den

\* C15 witness: two outcomes of different confidence succeeded and one
\* failed.
C15_Witness ==
    /\ Done
    /\ Failed # {}
    /\ \E i, j \in Succeeded : results[i].confidence # results[j].confidence
    /\ final.confidence.num * Cardinality(Succeeded)
          = SumSeq(ConfidenceTerms) * final.confidence.den

\* The outcomes of the backends called, in registration order.
OutcomesInOrder ==
    LET called == FilterSeq(RegOrder, Attempted)
    IN [i \in 1..Len(called) |-> callRes[called[i]]]

\* C16: models_used holds exactly the backends with a successful outcome, in
\* registration order (which is the stage order of cascade and accurate),
\* and the returned dict is the aggregate of the outcomes taken in that
\* order: it does not depend on the order in which the calls completed.
C16_ModelsUsedInPlanOrder ==
    Done =>
        /\ final.models_used
              = FilterSeq(RegOrder, {results[i].model_name : i \in Succeeded})
        /\ results = OutcomesInOrder
        /\ final = FinalResult(OutcomesInOrder, model_weights, strategy)

\* C16 witness: a balanced request in which a later backend completed while
\* an earlier one still ran, and at least two backends succeeded.
C16_Witness ==
    /\ Done
    /\ strategy = "balanced"
    /\ outOfOrder
    /\ Cardinality(Succeeded) >= 2
    /\ final.models_used
          = FilterSeq(RegOrder, {results[i].model_name : i \in Succeeded})

\* The keys in the cache, in dict order.
CacheKeys == [i \in 1..Len(cache) |-> cache[i].key]

C18_CacheSizeBounded ==
    /\ Len(cache) <= CacheMaxSize
    /\ \A i, j \in 1..Len(cache) : cache[i].key = cache[j].key => i = j

\* C18 witness: a result was stored in a full cache, after a hit, and the
\* cache is full again.
C18_Witness ==
    /\ lastCall # Null
    /\ lastCall.stored
    /\ lastCall.evicted # 0
    /\ lastCall.afterHit # 0
    /\ Len(cache) = CacheMaxSize

\* C19: a hit on a text whose computation succeeded returns the score, the
\* categories and the confidence that computation returned; the result
\* differs from that one in the flag "cached" at most; and the entry still
\* holds that score, those categories and that confidence.
C19_HitEqualsFresh ==
    (lastCall # Null /\ lastCall.hit) =>
        LET e == cache[IndexOf(cache, lastCall.key)]
        IN (e.text = lastCall.text /\ ~e.failed) =>
              /\ ~ lastCall.result.error
              /\ lastCall.result.score = e.fresh.score
              /\ lastCall.result.categories = e.fresh.categories
              /\ lastCall.result.confidence = e.fresh.confidence
              /\ [lastCall.result EXCEPT !.cached = e.fresh.cached] = e.fresh
              /\ e.result.score = e.fresh.score
              /\ e.result.categories = e.fresh.categories
              /\ e.result.confidence = e.fresh.confidence

\* C19 witness: a hit of ClaudeAnalyzer or ToxicBertAnalyzer returned the
\* stored result of a text with a category, flagged as cached.
C19_Witness ==
    /\ lastCall # Null
    /\ lastCall.hit
    /\ analyzer \in {"claude", "toxic_bert"}
    /\ lastCall.result.cached
    /\ lastCall.result.categories # <<>>
    /\ lastCall.result.score = cache[IndexOf(cache, lastCall.key)].fresh.score

AllFailedResult ==
    /\ final.toxicity_score = Zero
    /\ final.is_toxic = FALSE
    /\ final.categories = <<>>
    /\ final.confidence = Zero
    /\ DetailsError # NoError
    /\ final.models_used = <<>>

\* C21: an orchestrator with no backend registered answers a request of any
\* of the four strategies with the all-failed result, and the endpoint
\* answers 200 with score 0.0, not toxic, confidence 0.0 and no model used.
C21_NoBackendsAllFailed ==
    (Done /\ models = {} /\ strategy \in Strategies) =>
        /\ AllFailedResult
        /\ response.status = 200
        /\ response.toxicity_score = Zero
        /\ response.is_toxic = FALSE
        /\ response.confidence = Zero
        /\ response.models_used = <<>>

\* C21 witness: a balanced request on an orchestrator without backends is
\* over, and no call was made for it.
C21_Witness ==
    /\ Done
    /\ models = {}
    /\ strategy = "balanced"
    /\ Attempted = {}
    /\ AllFailedResult

\* The time a request may take at the most: fast and the stages of cascade
\* wait for one call each, balanced and accurate for the slowest call of
\* their one stage.
LatencyBound ==
    LET ran == {b \in Attempted : b \in models}
        each == [i \in 1..Len(RegOrder) |->
                    IF RegOrder[i] \in ran THEN Timeouts[RegOrder[i]] ELSE 0]
    IN IF strategy \in {"fast", "cascade"} THEN SumSeq(each)
       ELSE IF ran = {} THEN 0
       ELSE CHOOSE t \in {Timeouts[b] : b \in ran} : \A b \in ran : Timeouts[b] <= t

\* The timeouts of all the calls of the request, added up.
SumOfTimeouts ==
    SumSeq([i \in 1..Len(RegOrder) |->
               IF RegOrder[i] \in Attempted /\ RegOrder[i] \in models
               THEN Timeouts[RegOrder[i]] ELSE 0])

Busy == pc \in {"fast", "cascade", "gather"}

\* C22: a request that was started is answered, whether or not its backends
\* ever answer; it is over by the sum, over the stages it ran, of the
\* largest timeout of the stage, which for a stage of several backends is
\* less than the sum of their timeouts.
C22_ReturnsWithinStageTimeouts ==
    /\ [](Done => /\ elapsed <= LatencyBound
                  /\ (Cardinality(Attempted \cap models) > 1 /\ pc = "done"
                      /\ strategy \in {"balanced", "accurate"}
                        => elapsed < SumOfTimeouts))
    /\ (Busy ~> Done)

\* C22 witness: every backend of a balanced request over all four ran into
\* its timeout, and the request is over after the largest of them.
C22_Witness ==
    /\ Done
    /\ strategy = "balanced"
    /\ models = Backends
    /\ \A b \in Backends : TimedOut(b)
    /\ elapsed = Timeouts["claude"]

\* C24: in balanced and accurate, once a call of the stage has completed or
\* an outcome was collected, every task of the stage has started, and each
\* started when the stage began; in cascade at most one call runs at a time,
\* and toxic_bert or claude are called only once the outcome of keyword is
\* the first of the results.
C24_SiblingsLaunchedBeforeAwait ==
    /\ (strategy \in {"balanced", "accurate"} /\ ~Done
          /\ (results # <<>> \/ \E b \in Backends : callSt[b] = "done")) =>
            \A b \in Attempted :
                /\ callSt[b] \in {"running", "done"}
                /\ finishBy[b] = Timeouts[b]
    /\ strategy = "cascade" =>
          /\ Cardinality({b \in Backends : callSt[b] = "running"}) <= 1
          /\ (calls["toxic_bert"] > 0 \/ calls["claude"] > 0) =>
                /\ callSt["keyword"] = "done"
                /\ results # <<>>
                /\ results[1] = callRes["keyword"]
          /\ (calls["toxic_bert"] > 0 /\ calls["claude"] > 0) =>
                /\ callSt["toxic_bert"] = "done"
                /\ Len(results) >= 2

\* C24 witness: toxic_bert ran into its timeout while its siblings keyword
\* and claude, started with it, still run, and nothing was collected yet.
C24_Witness ==
    /\ strategy = "balanced"
    /\ pc = "gather"
    /\ TimedOut("toxic_bert")
    /\ callSt["keyword"] = "running"
    /\ callSt["claude"] = "running"
    /\ results = <<>>

\* C27: in cascade, when the outcome of keyword is a failure, no other
\* backend is called, and the request ends with the all-failed result.
C27_CascadeStopsOnFailedKeyword ==
    (strategy = "cascade" /\ callSt["keyword"] = "done"
       /\ callRes["keyword"].error # NoError) =>
        /\ calls["toxic_bert"] = 0
        /\ calls["claude"] = 0
        /\ Done => (results = <<callRes["keyword"]>> /\ AllFailedResult)

\* C27 witness: keyword timed out in a cascade request of an orchestrator
\* that has toxic_bert and claude, and the request is over.
C27_Witness ==
    /\ Done
    /\ strategy = "cascade"
    /\ {"keyword", "toxic_bert", "claude"} \subseteq models
    /\ TimedOut("keyword")
    /\ AllFailedResult

\* C28: the score and the confidence returned are fractions of a non-zero
\* denominator within [0, 1], whatever the strategy and whichever calls
\* failed; when the weights of the successful outcomes sum to zero the
\* score is 0.0.
C28_ScoreAndConfidenceInRange ==
    Done =>
        /\ final.toxicity_score.den > 0
        /\ final.confidence.den > 0
        /\ FracGE(final.toxicity_score, 0) /\ FracLE(final.toxicity_score, MaxScore)
        /\ FracGE(final.confidence, 0) /\ FracLE(final.confidence, MaxScore)
        /\ (Succeeded # {} /\ SumSeq(WeightTerms) = 0) => final.toxicity_score = Zero

\* C28 witness: two calls answered with a score above zero, a third failed,
\* and the weights of the two that answered are 0.0.
C28_Witness ==
    /\ Done
    /\ Cardinality(Succeeded) >= 2
    /\ Failed # {}
    /\ \A i \in Succeeded : results[i].toxicity_score > 0
    /\ SumSeq(WeightTerms) = 0
    /\ final.toxicity_score = Zero
    /\ FracGE(final.confidence, 1)


\* C30 (the claim as stated; the code violates it): a call that ended on an
\* error or fallback path stored nothing, and its key is not in the cache
\* after it; no entry of the cache comes from such a path, and no hit
\* returns a failure.
C30_CacheHoldsOnlySuccesses ==
    /\ (lastCall # Null /\ lastCall.failed) =>
          /\ ~lastCall.stored
          /\ IndexOf(cache, lastCall.key) = 0
    /\ \A i \in 1..Len(cache) : ~cache[i].failed
    /\ (lastCall # Null /\ lastCall.hit) => ~lastCall.result.error

\* What holds instead: the paths that return before the store (load failure,
\* exception, API error, API disabled) store nothing, for every class; the
\* fallback results of RinnaAnalyzer and ClaudeAnalyzer are stored.
ErrorPathsStoreNothing ==
    (lastCall # Null /\ lastCall.failed) =>
        IF lastCall.stored
        THEN /\ analyzer \in StoresFallback
             /\ lastCall.result = FallbackResult(analyzer, lastCall.result.timestamp)
             /\ IndexOf(cache, lastCall.key) # 0
        ELSE IndexOf(cache, lastCall.key) = 0


\* A complete MultiModelAnalyzer: models, weights and timeouts as __init__
\* sets them.
IsAnalyzer(a) ==
    /\ a # Null
    /\ a.models \in RouterModelSets
    /\ a.model_weights = DefaultWeights
    /\ a.timeouts = Timeouts

\* C25: once constructed, the analyzer (registry, weights, timeouts) is never
\* written; and the result of a request is the aggregate of the outcomes its
\* own calls returned, under its own strategy, whatever the other requests
\* collected meanwhile.
C25_NoCrossRequestState ==
    /\ [][router_analyzer # Null => router_analyzer' = router_analyzer]_vars
    /\ [](\A r \in DOMAIN req :
            /\ Len(req[r].results) <= Len(req[r].answered)
            /\ req[r].results = SubSeq(req[r].answered, 1, Len(req[r].results))
            /\ req[r].pc = "done" =>
                  /\ req[r].results = req[r].answered
                  /\ req[r].final = FinalResult(req[r].answered,
                                                req[r].used.model_weights,
                                                req[r].strategy)
                  /\ req[r].final.strategy = req[r].strategy)

\* C25 witness: a balanced request is over while another balanced request,
\* whose first call returned something else, still waits for its second.
C25_Witness ==
    /\ req # <<>>
    /\ \E r, q \in DOMAIN req :
          /\ r # q
          /\ req[r].strategy = "balanced" /\ req[q].strategy = "balanced"
          /\ req[r].pc = "done"
          /\ Len(req[r].results) = 2
          /\ req[q].pc = "wait"
          /\ Len(req[q].results) = 1
          /\ req[q].results[1] # req[r].results[1]

\* C26: MultiModelAnalyzer() is called at most once, and a request that
\* analyses does so on the one complete object the global names.
C26_ConstructedAtMostOnce ==
    /\ constructions <= 1
    /\ (router_analyzer # Null) => (constructions = 1 /\ IsAnalyzer(router_analyzer))
    /\ \A r \in DOMAIN req :
          req[r].pc \in {"wait", "done"} =>
              /\ IsAnalyzer(req[r].used)
              /\ req[r].used = router_analyzer

\* C26 witness: two requests both found the global None, and both analyse
\* on the one object constructed.
C26_Witness ==
    /\ req # <<>>
    /\ constructions = 1
    /\ \E r, q \in DOMAIN req :
          /\ r # q
          /\ req[r].sawNone /\ req[q].sawNone
          /\ req[r].pc \in {"wait", "done"}
          /\ req[q].pc \in {"wait", "done"}


\* C23 (the claim as stated; the code violates it): with analyze_text calls
\* running in several threads, the cache never holds more than CacheMaxSize
\* entries, no call ends in the except branch because of the eviction of
\* another call, and a call that missed returns the result it computed.
C23_ConcurrentCacheSafe ==
    /\ Len(cache) <= CacheMaxSize
    /\ \A w \in DOMAIN workers :
          workers[w].pc = "done" =>
              /\ ~workers[w].raced
              /\ workers[w].result # Null => workers[w].outcome = workers[w].result

\* What holds instead: the cache exceeds its maximum by at most one entry
\* per further thread, and a call that did not run into the eviction of
\* another returns what it computed.
ConcurrentCacheSlack ==
    /\ Len(cache) <= CacheMaxSize + Cardinality(DOMAIN workers) - 1
    /\ \A w \in DOMAIN workers :
          (workers[w].pc = "done" /\ ~workers[w].raced /\ workers[w].result # Null) =>
              workers[w].outcome = workers[w].result


\* The rows a usage table can have.
UsageRows == ApiKeys \X (1..MaxDays)

\* C29: no count is above the daily limit of its key; the last call was
\* admitted only for an active key whose count of the day was below the
\* limit, and raised that count by one and no other; a call that was
\* rejected changed no count.
C29_CountWithinDailyLimit ==
    /\ \A row \in DOMAIN usage : usage[row] <= api_keys[row[1]].daily_limit
    /\ lastAuth # Null =>
          LET k == lastAuth.key
              d == lastAuth.day
              same(rows) == \A row \in rows :
                               CountOf(usage, row[1], row[2])
                                 = CountOf(lastAuth.before, row[1], row[2])
          IN IF lastAuth.status = 200
             THEN /\ k \in ApiKeys
                  /\ api_keys[k].is_active
                  /\ CountOf(lastAuth.before, k, d) < api_keys[k].daily_limit
                  /\ CountOf(usage, k, d) = CountOf(lastAuth.before, k, d) + 1
                  /\ same(UsageRows \ {<<k, d>>})
             ELSE /\ same(UsageRows)
                  /\ lastAuth.status = 429 =>
                        CountOf(usage, k, d) = api_keys[k].daily_limit
                  /\ lastAuth.status = 403 =>
                        (k \notin ApiKeys \/ ~api_keys[k].is_active)

\* C29 witness: a key that used up its limit the day before and again today
\* was just rejected with 429.
C29_Witness ==
    /\ lastAuth # Null
    /\ lastAuth.status = 429
    /\ lastAuth.day = MaxDays
    /\ \A d \in 1..MaxDays : CountOf(usage, lastAuth.key, d) = DailyLimit


====
